---- MODULE Spec2Model ----
(***************************************************************************)
(* Model of mistral_ocr_script.py: the batch loop of main(), the two       *)
(* per-file pipelines process_pdf_file / process_image_file and the        *)
(* Markdown synthesis helpers.                                             *)
(*                                                                         *)
(* A Python str is modelled as a sequence of one-character strings, a      *)
(* path as a record [stem, suffix], the working directory as a function    *)
(* from paths to entries, and every remote call as a step whose result     *)
(* (return value or raised exception) is chosen nondeterministically.      *)
(***************************************************************************)
EXTENDS Integers, Sequences, FiniteSets, TLC

\* ------------------------------------------------------------------------
\* Bounds of the model
\* ------------------------------------------------------------------------

\* Largest number of candidate source files put in the directory by Init.
MaxFiles == 2

\* Number of times the batch is run over the same directory (RerunSpec).
MaxRuns == 2

\* Largest number of pages of an OCR result handed to the synthesis on its
\* own (SynthSpec).
MaxPages == 3

\* Largest number of pieces (plain text, image references) a page text with
\* images is made of, and largest number of images on such a page.
MaxSegments == 2
MaxImages == 2

\* ------------------------------------------------------------------------
\* Python values used by the helpers
\* ------------------------------------------------------------------------

\* An attribute of a service response object: a str, None, or no attribute.
StrAttr(s) == [tag |-> "str", val |-> s]
NoneAttr == [tag |-> "none", val |-> <<>>]
MissingAttr == [tag |-> "missing", val |-> <<>>]

\* hasattr(obj, name)
hasattr(a) == a.tag # "missing"

\* What an f-string makes of an attribute value: str(None) is "None".
Format(a) == IF a.tag = "str" THEN a.val ELSE <<"N", "o", "n", "e">>

\* ------------------------------------------------------------------------
\* replace_images_in_markdown and generate_markdown_from_response
\* ------------------------------------------------------------------------

\* The positions at which old occurs in s.
Occurrences(s, old) ==
    {i \in 1..(Len(s) - Len(old) + 1) : SubSeq(s, i, i + Len(old) - 1) = old}

\* s.find(old) + 1 when old occurs in s
FirstOccurrence(s, old) ==
    CHOOSE i \in Occurrences(s, old) : \A j \in Occurrences(s, old) : i <= j

\* str.replace(old, new): left to right, non-overlapping, old is not empty.
\* The first occurrence is replaced and the search goes on behind it.
RECURSIVE StrReplace(_, _, _)
StrReplace(s, old, new) ==
    IF Occurrences(s, old) = {} THEN s
    ELSE SubSeq(s, 1, FirstOccurrence(s, old) - 1) \o new
            \o StrReplace(SubSeq(s, FirstOccurrence(s, old) + Len(old), Len(s)),
                          old, new)

\* f"![{img_id}]({target})"
ImageRef(img_id, target) ==
    <<"!", "[">> \o Format(img_id) \o <<"]", "(">> \o target \o <<")">>

\* The loop of replace_images_in_markdown over images_dict.items(), a dict
\* given as a sequence of [key, value] items in insertion order.
RECURSIVE ReplaceItems(_, _)
ReplaceItems(markdown_str, items) ==
    IF items = <<>> THEN markdown_str
    ELSE ReplaceItems(
             StrReplace(markdown_str,
                        ImageRef(Head(items).key, Format(Head(items).key)),
                        ImageRef(Head(items).key, Head(items).value)),
             Tail(items))

replace_images_in_markdown(markdown_str, images_dict) ==
    IF images_dict = <<>> THEN markdown_str
    ELSE ReplaceItems(markdown_str, images_dict)

\* image_data[key] = value on an insertion-ordered dict: a key that is
\* already present keeps its position and takes the new value.
DictSet(d, key, value) ==
    IF \E i \in 1..Len(d) : d[i].key = key
    THEN [i \in 1..Len(d) |->
             IF d[i].key = key THEN [key |-> key, value |-> value] ELSE d[i]]
    ELSE Append(d, [key |-> key, value |-> value])

DataUrlPrefix ==
    <<"d", "a", "t", "a", ":", "i", "m", "a", "g", "e", "/", "p", "n", "g",
      ";", "b", "a", "s", "e", "6", "4", ",">>

\* The inner loop of generate_markdown_from_response that fills image_data.
RECURSIVE ImageData(_, _)
ImageData(page_images, image_data) ==
    IF page_images = <<>> THEN image_data
    ELSE LET img == Head(page_images) IN
         IF ~hasattr(img.id) \/ ~hasattr(img.image_base64)
         THEN ImageData(Tail(page_images), image_data)
         ELSE ImageData(Tail(page_images),
                        DictSet(image_data, img.id,
                                DataUrlPrefix \o Format(img.image_base64)))

\* The text one page contributes to markdown_parts.
PageMarkdown(page, include_images) ==
    IF include_images /\ page.images # <<>>
    THEN replace_images_in_markdown(page.markdown.val,
                                    ImageData(page.images, <<>>))
    ELSE page.markdown.val

\* A page whose markdown attribute is None makes the synthesis raise: with a
\* non-empty image_data None has no replace method, and otherwise the None
\* reaches markdown_parts, where str.join rejects it.
PageRaises(page) == page.markdown.tag = "none"

RECURSIVE MarkdownParts(_, _)
MarkdownParts(pages, include_images) ==
    IF pages = <<>> THEN <<>>
    ELSE IF ~hasattr(Head(pages).markdown)
         THEN MarkdownParts(Tail(pages), include_images)
         ELSE <<PageMarkdown(Head(pages), include_images)>>
              \o MarkdownParts(Tail(pages), include_images)

PageSeparator == <<"\n", "\n", "-", "-", "-", "\n", "\n">>

\* A join that puts the separator after every part, the last one included.
RECURSIVE StrJoinTrailing(_, _)
StrJoinTrailing(sep, parts) ==
    IF parts = <<>> THEN <<>>
    ELSE parts[1] \o sep \o StrJoinTrailing(sep, Tail(parts))

\* sep.join(parts)
RECURSIVE StrJoin(_, _)
StrJoin(sep, parts) ==
    IF parts = <<>> THEN <<>>
    ELSE IF Len(parts) = 1 THEN parts[1]
         ELSE parts[1] \o sep \o StrJoin(sep, Tail(parts))

\* TRUE when generate_markdown_from_response raises instead of returning.
GenerateRaises(ocr_response) ==
    \E i \in 1..Len(ocr_response.pages) :
        PageRaises(ocr_response.pages[i])

generate_markdown_from_response(ocr_response, include_images) ==
    IF ocr_response.pages = <<>> THEN <<>>
    ELSE StrJoin(PageSeparator,
                 MarkdownParts(ocr_response.pages, include_images))

\* ------------------------------------------------------------------------
\* Paths, the working directory and the service's results
\* ------------------------------------------------------------------------

INCLUDE_BASE64_IMAGES_FROM_PDF == FALSE

SUPPORTED_EXTENSIONS == {".pdf", ".png", ".jpg", ".jpeg", ".webp"}

Path(stem, suffix) == [stem |-> stem, suffix |-> suffix]

\* str.lower() on the suffixes that occur
Lower(suffix) == IF suffix = ".PDF" THEN ".pdf" ELSE suffix

\* Path.with_suffix(".md")
with_suffix_md(file_path) == Path(file_path.stem, ".md")

\* A directory entry: nothing, a regular file with its bytes, or a directory.
Absent == [kind |-> "absent", data |-> <<>>]
File(data) == [kind |-> "file", data |-> data]
Dir == [kind |-> "dir", data |-> <<>>]

\* The source files a directory may hold, and every path it may hold.
SourcePaths == {Path("a", ".pdf"), Path("a", ".png"), Path("b", ".PDF")}

AllPaths ==
    SourcePaths \cup {Path("c", ".txt"), Path("d", ".jpg"),
                      Path("a", ".md"), Path("b", ".md")}

OldMarkdown == <<"o", "l", "d">>

\* The script's own path as __file__ gives it: the usual .py file, a
\* candidate of the directory, or no __file__ at all (NameError).
ScriptPy == Path("mistral_ocr_script", ".py")
NoFileName == Path("", "")
ScriptPaths == {ScriptPy, Path("b", ".PDF"), NoFileName}

\* OCR results the service may return.
Page(markdown, images) == [markdown |-> markdown, images |-> images]
Image(id, image_base64) == [id |-> id, image_base64 |-> image_base64]
Pages(pages) == [some |-> TRUE, pages |-> pages]

\* The value None as process_pdf_file / process_image_file return it.
None == [some |-> FALSE, pages |-> <<>>]

\* "\ud800": a lone surrogate, which the utf-8 codec cannot encode.
Surrogate == "\\ud800"

OcrResults ==
    { Pages(<<>>),
      Pages(<<Page(StrAttr(<<"x", "y">>), <<>>)>>),
      Pages(<<Page(NoneAttr, <<>>)>>),
      Pages(<<Page(StrAttr(<<Surrogate>>), <<>>)>>) }

\* str.encode("utf-8") succeeds
Encodable(content) == \A i \in 1..Len(content) : content[i] # Surrogate

\* The truthy id the service gives the file staged for candidate i, and the
\* falsy ids (None, "") an upload response may carry instead.
Handle(i) == i
NullId == 0

\* mimetypes.guess_type: what it knows depends on the Python version and on
\* the system's mime.types files; .webp is known to some and not to others.
MimeGuess(suffix, knows_webp) ==
    IF suffix = ".png" THEN "image/png"
    ELSE IF suffix \in {".jpg", ".jpeg"} THEN "image/jpeg"
    ELSE IF suffix = ".webp" /\ knows_webp THEN "image/webp"
    ELSE ""

\* The fallback table of process_image_file

MimeMap(ext) ==
    IF ext = ".png" THEN "image/png"
    ELSE IF ext \in {".jpg", ".jpeg"} THEN "image/jpeg"
    ELSE IF ext = ".webp" THEN "image/webp"
    ELSE ""

final_mime_type(file_path, knows_webp) ==
    IF MimeGuess(Lower(file_path.suffix), knows_webp) # ""
    THEN MimeGuess(Lower(file_path.suffix), knows_webp)
    ELSE IF MimeMap(Lower(file_path.suffix)) # ""
         THEN MimeMap(Lower(file_path.suffix))
         ELSE "image/jpeg"

\* ------------------------------------------------------------------------
\* State
\* ------------------------------------------------------------------------

VARIABLES
    pc,                 \* position of main() / of the pipeline it called
    run,                \* 1 for the first run over the directory, 2 ...
    fs,                 \* the working directory: path -> entry
    script_file_path,   \* Path(__file__), or NoFileName
    upload_method,      \* "upload", "create" or "none": what client.files has
    files_to_process,   \* the candidates, in enumeration order
    idx,                \* index of the candidate the for loop is at
    files_processed,
    files_skipped,
    errors_occurred,
    uploaded_file_id,   \* process_pdf_file's local
    signed_url_str,     \* process_pdf_file's local
    ocr_response,       \* the pipeline's pending return value / main's local
    calls,              \* remote calls issued in this run, in order
    writes,             \* output paths opened for writing in this run
    outcome,            \* per candidate: "pending", "processed", ...
    summaries,          \* number of times the summary was printed
    exit_status,        \* -1 while running, then the sys.exit argument
    fatal,              \* the fatal start-up error that ended the run, or ""
    prev,               \* what the previous run left: its fs, outcome by file
    synth               \* a call of generate_markdown_from_response on its own

vars ==
    <<pc, run, fs, script_file_path, upload_method, files_to_process, idx,
      files_processed, files_skipped, errors_occurred, uploaded_file_id,
      signed_url_str, ocr_response, calls, writes, outcome, summaries,
      exit_status, fatal, prev, synth>>

\* Remote call records: the operation, the candidate it was issued for, the
\* file_id and document arguments, whether the call raised, and the OCR
\* result a process call returned (None otherwise).
Call(op, i, file_id, doc, include, raised, result) ==
    [op |-> op, file |-> i, file_id |-> file_id, doc |-> doc,
     include |-> include, raised |-> raised, result |-> result]

\* A record of open(output_md_path, "w") and how the write ended.
Write(path, i, result) == [path |-> path, file |-> i, result |-> result]

RemoteOps == {"upload", "get_signed_url", "process", "delete"}

\* An existence test that takes an empty file for a missing one.
existsNonEmpty(path) ==
    fs[path].kind = "dir" \/ (fs[path].kind = "file" /\ fs[path].data # <<>>)

exists(path) == fs[path].kind # "absent"
is_file(path) == fs[path].kind = "file"

\* all_items filtered as lines 268-273 filter them, order kept
IsSupported(item) ==
    /\ is_file(item)
    /\ Lower(item.suffix) \in SUPPORTED_EXTENSIONS
    /\ Lower(item.suffix) # ".md"

RECURSIVE FilterSupported(_)
FilterSupported(all_items) ==
    IF all_items = <<>> THEN <<>>
    ELSE IF IsSupported(Head(all_items))
         THEN <<Head(all_items)>> \o FilterSupported(Tail(all_items))
         ELSE FilterSupported(Tail(all_items))

\* Every order in which the elements of a set can be listed.
RECURSIVE Listings(_)
Listings(entries) ==
    IF entries = {} THEN {<<>>}
    ELSE UNION {{<<first>> \o rest : rest \in Listings(entries \ {first})} :
                   first \in entries}

\* list(script_dir.iterdir()): the entries of the directory, in an order the
\* file system chooses; every order is possible, in every run.
iterdir == Listings({path \in AllPaths : exists(path)})

\* The values files_to_process can take, {FilterSupported(all_items) :
\* all_items \in iterdir}: the comprehension keeps the order of the listing,
\* so these are the listings of the supported entries.
SupportedListings ==
    Listings({path \in AllPaths : exists(path) /\ IsSupported(path)})

\* The same set, computed from the listings of the whole directory.
FilteredListings == {FilterSupported(all_items) : all_items \in iterdir}

\* The directories Init starts from: at most MaxFiles source files, the
\* image possibly of zero bytes, a text file and a sub-directory that are
\* no candidates, and any of the two outputs already there.
InitialDirs ==
    { d \in [AllPaths -> {Absent, Dir, File(<<>>), File(<<"x">>), File(OldMarkdown)}] :
        /\ Cardinality({p \in SourcePaths : d[p] # Absent}) <= MaxFiles
        /\ d[Path("a", ".pdf")] \in {Absent, File(<<"x">>)}
        /\ d[Path("b", ".PDF")] \in {Absent, File(<<"x">>)}
        /\ d[Path("a", ".png")] \in {Absent, File(<<>>), File(<<"x">>)}
        /\ d[Path("c", ".txt")] = File(<<"x">>)
        /\ d[Path("d", ".jpg")] = Dir
        /\ d[Path("a", ".md")] \in {Absent, File(OldMarkdown)}
        /\ d[Path("b", ".md")] \in {Absent, File(OldMarkdown)} }

\* generate_markdown_from_response is not being called on its own.
NoSynth ==
    [stage |-> "idle", ocr_response |-> None, include_images |-> FALSE,
     markdown_content |-> <<>>]

NoPrev ==
    [fs |-> [p \in AllPaths |-> Absent],
     outcome |-> [p \in SourcePaths |-> "none"],
     ran |-> FALSE]

StartOfRun ==
    /\ pc = "load_key"
    /\ upload_method = "none"
    /\ files_to_process = <<>>
    /\ idx = 1
    /\ files_processed = 0
    /\ files_skipped = 0
    /\ errors_occurred = 0
    /\ uploaded_file_id = NullId
    /\ signed_url_str = ""
    /\ ocr_response = None
    /\ calls = <<>>
    /\ writes = <<>>
    /\ outcome = <<>>
    /\ summaries = 0
    /\ exit_status = -1
    /\ fatal = ""

\* The state main() starts in. A run without __file__ is explored over the
\* directories that hold fewer than MaxFiles source files.
Init ==
    /\ StartOfRun
    /\ run = 1
    /\ fs \in InitialDirs
    /\ script_file_path \in ScriptPaths
    /\ script_file_path \in AllPaths => exists(script_file_path)
    /\ script_file_path = NoFileName =>
          Cardinality({p \in SourcePaths : exists(p)}) < MaxFiles
    /\ prev = NoPrev
    /\ synth = NoSynth

\* ------------------------------------------------------------------------
\* main(): start-up (lines 237-279)
\* ------------------------------------------------------------------------

pipeline_vars == <<uploaded_file_id, signed_url_str, ocr_response>>
counters == <<files_processed, files_skipped, errors_occurred>>
env_vars == <<run, script_file_path, prev, synth>>

\* sys.exit(status)
Exit(status) ==
    /\ pc' = "exited"
    /\ exit_status' = status

\* A fatal start-up error is printed and the run ends with status 1.
Fatal(kind) ==
    /\ fatal' = kind
    /\ Exit(1)

\* A credential check that prints the error and forgets to exit.
LoadKeyContinues ==
    /\ pc = "load_key"
    /\ \E api_key \in BOOLEAN :
          /\ fatal' = IF api_key THEN "" ELSE "MissingCredential"
          /\ pc' = "init_client"
          /\ UNCHANGED exit_status
    /\ UNCHANGED <<fs, upload_method, files_to_process, idx, counters,
                   pipeline_vars, calls, writes, outcome, summaries, env_vars>>

\* Lines 237-243: the credential is read; without it the run ends at once.
LoadKey ==
    /\ pc = "load_key"
    /\ \E api_key \in BOOLEAN :
          IF ~api_key
          THEN Fatal("MissingCredential")
          ELSE /\ pc' = "init_client"
               /\ UNCHANGED <<exit_status, fatal>>
    /\ UNCHANGED <<fs, upload_method, files_to_process, idx, counters,
                   pipeline_vars, calls, writes, outcome, summaries, env_vars>>

\* Lines 245-250: the client is constructed, or construction raises.
InitClient ==
    /\ pc = "init_client"
    /\ \/ /\ Fatal("ClientInitError")
          /\ UNCHANGED upload_method
       \/ /\ \E m \in {"upload", "create", "none"} : upload_method' = m
          /\ pc' = "list_dir"
          /\ UNCHANGED <<exit_status, fatal>>
    /\ UNCHANGED <<fs, files_to_process, idx, counters, pipeline_vars, calls,
                   writes, outcome, summaries, env_vars>>

\* Lines 261-279: the directory is listed and filtered; a listing error and
\* an empty candidate list both end the run.
ListFiles ==
    /\ pc = "list_dir"
    /\ \/ /\ Fatal("DirectoryListError")
          /\ UNCHANGED <<files_to_process, outcome>>
       \/ \E supported \in SupportedListings :
             /\ supported = <<>>
             /\ Exit(0)
             /\ UNCHANGED <<files_to_process, outcome, fatal>>
       \/ \E supported \in SupportedListings :
             /\ supported # <<>>
             /\ files_to_process' = supported
             /\ outcome' = [i \in 1..Len(supported) |-> "pending"]
             /\ pc' = "loop"
             /\ UNCHANGED <<exit_status, fatal>>
    /\ UNCHANGED <<fs, upload_method, idx, counters, pipeline_vars, calls,
                   writes, summaries, env_vars>>

\* ------------------------------------------------------------------------
\* main(): the for loop (lines 281-349)
\* ------------------------------------------------------------------------

AtCandidate == pc = "loop" /\ idx <= Len(files_to_process)

file_path == files_to_process[idx]
output_md_path == with_suffix_md(file_path)

\* The for loop moves on to the next candidate with this one's outcome set.
Finish(result) ==
    /\ outcome' = [outcome EXCEPT ![idx] = result]
    /\ idx' = idx + 1
    /\ pc' = "loop"

\* The skip branch without its continue: the file is counted as skipped and
\* processed all the same.
SkipExistingNoContinue ==
    /\ AtCandidate
    /\ exists(output_md_path)
    /\ files_skipped' = files_skipped + 1
    /\ ocr_response' = None
    /\ uploaded_file_id' = NullId
    /\ signed_url_str' = ""
    /\ IF Lower(file_path.suffix) = ".pdf"
       THEN pc' = "pdf_open"
       ELSE pc' = "img_read"
    /\ UNCHANGED <<fs, upload_method, files_to_process, idx, files_processed,
                   errors_occurred, calls, writes, outcome, summaries,
                   exit_status, fatal, env_vars>>

\* Lines 286-289
SkipExisting ==
    /\ AtCandidate
    /\ exists(output_md_path)
    /\ files_skipped' = files_skipped + 1
    /\ Finish("skipped")
    /\ UNCHANGED <<fs, upload_method, files_to_process, files_processed,
                   errors_occurred, pipeline_vars, calls, writes, summaries,
                   exit_status, fatal, env_vars>>

\* Lines 293-301
SkipSelf ==
    /\ AtCandidate
    /\ ~exists(output_md_path)
    /\ script_file_path # NoFileName
    /\ file_path = script_file_path
    /\ files_skipped' = files_skipped + 1
    /\ Finish("skipped")
    /\ UNCHANGED <<fs, upload_method, files_to_process, files_processed,
                   errors_occurred, pipeline_vars, calls, writes, summaries,
                   exit_status, fatal, env_vars>>

\* A dispatch that does not look at the output path first.
DispatchUnchecked ==
    /\ AtCandidate
    /\ ~(script_file_path # NoFileName /\ file_path = script_file_path)
    /\ ocr_response' = None
    /\ uploaded_file_id' = NullId
    /\ signed_url_str' = ""
    /\ IF Lower(file_path.suffix) = ".pdf"
       THEN pc' = "pdf_open"
       ELSE pc' = "img_read"
    /\ UNCHANGED <<fs, upload_method, files_to_process, idx, counters, calls,
                   writes, outcome, summaries, exit_status, fatal, env_vars>>

\* Lines 304-314: the pipeline for the file's type is entered.
Dispatch ==
    /\ AtCandidate
    /\ ~exists(output_md_path)
    /\ ~(script_file_path # NoFileName /\ file_path = script_file_path)
    /\ ocr_response' = None
    /\ uploaded_file_id' = NullId
    /\ signed_url_str' = ""
    /\ IF Lower(file_path.suffix) = ".pdf"
       THEN pc' = "pdf_open"
       ELSE pc' = "img_read"
    /\ UNCHANGED <<fs, upload_method, files_to_process, idx, counters, calls,
                   writes, outcome, summaries, exit_status, fatal, env_vars>>

\* ------------------------------------------------------------------------
\* process_pdf_file (lines 80-160)
\* ------------------------------------------------------------------------

main_vars ==
    <<fs, upload_method, files_to_process, idx, counters, writes, outcome,
      summaries, exit_status, fatal, env_vars>>

\* Lines 90-112: the file is opened; open may raise IOError, and a client
\* with neither files.upload nor files.create makes the function return None.
PdfOpen ==
    /\ pc = "pdf_open"
    /\ \/ /\ pc' = "pdf_finally"
       \/ /\ upload_method = "none"
          /\ pc' = "pdf_finally"
       \/ /\ upload_method # "none"
          /\ pc' = "pdf_upload"
    /\ UNCHANGED <<main_vars, pipeline_vars, calls>>

\* A staging call whose exception nothing catches: the traceback ends the
\* process with status 1.
PdfUploadAborts ==
    /\ pc = "pdf_upload"
    /\ \/ /\ calls' = Append(calls, Call("upload", idx, NullId, <<>>, FALSE, TRUE, None))
          /\ Exit(1)
          /\ UNCHANGED uploaded_file_id
       \/ \E id \in {NullId, Handle(idx)} :
             /\ calls' = Append(calls, Call("upload", idx, id, <<>>, FALSE, FALSE, None))
             /\ uploaded_file_id' = id
             /\ pc' = "pdf_get_signed_url"
             /\ UNCHANGED exit_status
    /\ UNCHANGED <<fs, upload_method, files_to_process, idx, counters, writes,
                   outcome, summaries, fatal, env_vars, signed_url_str,
                   ocr_response>>

\* Lines 99-115: the staging call. It raises, or returns an object whose id
\* becomes uploaded_file_id.
PdfUpload ==
    /\ pc = "pdf_upload"
    /\ \/ /\ calls' = Append(calls, Call("upload", idx, NullId, <<>>, FALSE, TRUE, None))
          /\ pc' = "pdf_finally"
          /\ UNCHANGED uploaded_file_id
       \/ \E id \in {NullId, Handle(idx)} :
             /\ calls' = Append(calls, Call("upload", idx, id, <<>>, FALSE, FALSE, None))
             /\ uploaded_file_id' = id
             /\ pc' = "pdf_get_signed_url"
    /\ UNCHANGED <<main_vars, signed_url_str, ocr_response>>

\* A locator request that does not look at what it got: the OCR call is made
\* even when the response carried no URL.
PdfGetSignedUrlUnchecked ==
    /\ pc = "pdf_get_signed_url"
    /\ \/ /\ calls' = Append(calls, Call("get_signed_url", idx, uploaded_file_id,
                                         <<>>, FALSE, TRUE, None))
          /\ pc' = "pdf_finally"
          /\ UNCHANGED signed_url_str
       \/ /\ calls' = Append(calls, Call("get_signed_url", idx, uploaded_file_id,
                                         <<>>, FALSE, FALSE, None))
          /\ \E url \in {"", "url"} : signed_url_str' = url
          /\ pc' = "pdf_ocr"
    /\ UNCHANGED <<main_vars, uploaded_file_id, ocr_response>>

\* Lines 117-129: the locator request. It raises, returns an object without
\* a usable signed_url / url (the function raises itself), or returns the URL.
PdfGetSignedUrl ==
    /\ pc = "pdf_get_signed_url"
    /\ \/ /\ calls' = Append(calls, Call("get_signed_url", idx, uploaded_file_id,
                                         <<>>, FALSE, TRUE, None))
          /\ pc' = "pdf_finally"
          /\ UNCHANGED signed_url_str
       \/ /\ calls' = Append(calls, Call("get_signed_url", idx, uploaded_file_id,
                                         <<>>, FALSE, FALSE, None))
          /\ \/ /\ signed_url_str' = ""
                /\ pc' = "pdf_finally"
             \/ /\ signed_url_str' = "url"
                /\ pc' = "pdf_ocr"
    /\ UNCHANGED <<main_vars, uploaded_file_id, ocr_response>>

\* An OCR step that deletes the staged file before the OCR call is made.
PdfOcrReleasesFirst ==
    /\ pc = "pdf_ocr"
    /\ \E raised \in BOOLEAN :
          LET released == IF uploaded_file_id # NullId
                          THEN Append(calls, Call("delete", idx, uploaded_file_id,
                                                  <<>>, FALSE, raised, None))
                          ELSE calls
          IN \/ /\ calls' = Append(released,
                                   Call("process", idx, NullId,
                                        <<"document_url", signed_url_str>>,
                                        INCLUDE_BASE64_IMAGES_FROM_PDF, TRUE, None))
                /\ UNCHANGED ocr_response
             \/ \E pdf_response \in OcrResults :
                   /\ calls' = Append(released,
                                      Call("process", idx, NullId,
                                           <<"document_url", signed_url_str>>,
                                           INCLUDE_BASE64_IMAGES_FROM_PDF, FALSE,
                                           pdf_response))
                   /\ ocr_response' = pdf_response
    /\ uploaded_file_id' = NullId
    /\ pc' = "pdf_finally"
    /\ UNCHANGED <<main_vars, signed_url_str>>

\* Lines 131-139: the OCR call on the signed URL; its result is the pending
\* return value while the finally block runs.
PdfOcr ==
    /\ pc = "pdf_ocr"
    /\ \/ /\ calls' = Append(calls, Call("process", idx, NullId,
                                         <<"document_url", signed_url_str>>,
                                         INCLUDE_BASE64_IMAGES_FROM_PDF, TRUE, None))
          /\ UNCHANGED ocr_response
       \/ \E pdf_response \in OcrResults :
             /\ calls' = Append(calls, Call("process", idx, NullId,
                                            <<"document_url", signed_url_str>>,
                                            INCLUDE_BASE64_IMAGES_FROM_PDF, FALSE,
                                            pdf_response))
             /\ ocr_response' = pdf_response
    /\ pc' = "pdf_finally"
    /\ UNCHANGED <<main_vars, uploaded_file_id, signed_url_str>>

\* A cleanup that runs on the success path only: the staged file is deleted
\* when the OCR call returned a result and is left behind otherwise.
PdfFinallyOnSuccessOnly ==
    /\ pc = "pdf_finally"
    /\ IF uploaded_file_id # NullId /\ ocr_response.some
       THEN \E raised \in BOOLEAN :
               calls' = Append(calls, Call("delete", idx, uploaded_file_id,
                                           <<>>, FALSE, raised, None))
       ELSE UNCHANGED calls
    /\ pc' = "handle_response"
    /\ UNCHANGED <<main_vars, pipeline_vars>>

\* A cleanup whose failure is not caught locally: the exception of the
\* delete call replaces the return value and the caller sees no result.
PdfFinallyEscalates ==
    /\ pc = "pdf_finally"
    /\ IF uploaded_file_id # NullId
       THEN \E raised \in BOOLEAN :
               /\ calls' = Append(calls, Call("delete", idx, uploaded_file_id,
                                              <<>>, FALSE, raised, None))
               /\ ocr_response' = IF raised THEN None ELSE ocr_response
       ELSE UNCHANGED <<calls, ocr_response>>
    /\ pc' = "handle_response"
    /\ UNCHANGED <<main_vars, uploaded_file_id, signed_url_str>>

\* A cleanup that does not test uploaded_file_id: the delete call is made
\* with whatever the variable holds.
PdfFinallyUnconditional ==
    /\ pc = "pdf_finally"
    /\ \E raised \in BOOLEAN :
          calls' = Append(calls, Call("delete", idx, uploaded_file_id,
                                      <<>>, FALSE, raised, None))
    /\ pc' = "handle_response"
    /\ UNCHANGED <<main_vars, pipeline_vars>>

\* A pipeline without the finally block: the staged file is left for later.
PdfFinallyLeavesStaged ==
    /\ pc = "pdf_finally"
    /\ pc' = "handle_response"
    /\ UNCHANGED <<main_vars, pipeline_vars, calls>>

\* Lines 151-160: the finally block. A truthy uploaded_file_id is deleted;
\* an exception of the delete call is caught and only printed.
PdfFinally ==
    /\ pc = "pdf_finally"
    /\ IF uploaded_file_id # NullId
       THEN \E raised \in BOOLEAN :
               calls' = Append(calls, Call("delete", idx, uploaded_file_id,
                                           <<>>, FALSE, raised, None))
       ELSE UNCHANGED calls
    /\ pc' = "handle_response"
    /\ UNCHANGED <<main_vars, pipeline_vars>>

\* ------------------------------------------------------------------------
\* process_image_file (lines 164-229)
\* ------------------------------------------------------------------------

\* A read without the `if not image_data` test: an empty image goes on to
\* the OCR call.
ImgReadAcceptsEmpty ==
    /\ pc = "img_read"
    /\ \/ pc' = "handle_response"
       \/ pc' = "img_ocr"
    /\ UNCHANGED <<main_vars, pipeline_vars, calls>>

\* Lines 170-182: the image is read; an IOError and a read of zero bytes
\* both return None.
ImgRead ==
    /\ pc = "img_read"
    /\ \/ pc' = "handle_response"
       \/ /\ fs[file_path].data = <<>>
          /\ pc' = "handle_response"
       \/ /\ fs[file_path].data # <<>>
          /\ pc' = "img_ocr"
    /\ UNCHANGED <<main_vars, pipeline_vars, calls>>

\* Lines 184-229: the data URL is built and sent to the OCR call, which
\* returns a result or raises (None is returned).
ImgOcr ==
    /\ pc = "img_ocr"
    /\ \E knows_webp \in BOOLEAN :
          \/ /\ calls' = Append(calls, Call("process", idx, NullId,
                                            <<"image_url",
                                              final_mime_type(file_path, knows_webp)>>,
                                            FALSE, TRUE, None))
             /\ UNCHANGED ocr_response
          \/ \E image_response \in OcrResults :
                /\ calls' = Append(calls, Call("process", idx, NullId,
                                               <<"image_url",
                                                 final_mime_type(file_path, knows_webp)>>,
                                               FALSE, FALSE, image_response))
                /\ ocr_response' = image_response
    /\ pc' = "handle_response"
    /\ UNCHANGED <<main_vars, uploaded_file_id, signed_url_str>>

\* ------------------------------------------------------------------------
\* main(): the pipeline's result is handled (lines 317-348)
\* ------------------------------------------------------------------------

include_images == Lower(file_path.suffix) = ".pdf" /\ INCLUDE_BASE64_IMAGES_FROM_PDF

markdown_content == generate_markdown_from_response(ocr_response, include_images)

\* What a write that raised IOError may have left in the file: any number
\* of its first characters, from none to all of it (the error came on close).
WrittenPrefixes(content) == {SubSeq(content, 1, k) : k \in 0..Len(content)}

CountError ==
    /\ errors_occurred' = errors_occurred + 1
    /\ Finish("error")
    /\ UNCHANGED <<files_processed, files_skipped>>

CountProcessed ==
    /\ files_processed' = files_processed + 1
    /\ Finish("processed")
    /\ UNCHANGED <<files_skipped, errors_occurred>>

\* The else branch without its errors_occurred += 1.
NoResponseUncounted ==
    /\ pc = "handle_response"
    /\ ~ocr_response.some
    /\ Finish("error")
    /\ UNCHANGED <<fs, upload_method, files_to_process, counters, pipeline_vars,
                   calls, writes, summaries, exit_status, fatal, env_vars>>

\* Lines 340-343: the pipeline returned None.
NoResponse ==
    /\ pc = "handle_response"
    /\ ~ocr_response.some
    /\ CountError
    /\ UNCHANGED <<fs, upload_method, files_to_process, pipeline_vars, calls,
                   writes, summaries, exit_status, fatal, env_vars>>

\* Lines 318-323 and 346-348: the synthesis raises; the outer handler counts
\* an error.
SynthesisRaises ==
    /\ pc = "handle_response"
    /\ ocr_response.some
    /\ GenerateRaises(ocr_response)
    /\ CountError
    /\ UNCHANGED <<fs, upload_method, files_to_process, pipeline_vars, calls,
                   writes, summaries, exit_status, fatal, env_vars>>

\* A write step that takes empty Markdown for a failure: nothing is written
\* and an error is counted.
WriteMarkdownUnlessEmpty ==
    /\ pc = "handle_response"
    /\ ocr_response.some
    /\ ~GenerateRaises(ocr_response)
    /\ \/ /\ markdown_content = <<>>
          /\ UNCHANGED <<fs, writes>>
          /\ CountError
       \/ /\ markdown_content # <<>>
          /\ writes' = Append(writes, Write(output_md_path, idx, "open_error"))
          /\ UNCHANGED fs
          /\ CountError
       \/ /\ markdown_content # <<>>
          /\ ~Encodable(markdown_content)
          /\ writes' = Append(writes, Write(output_md_path, idx, "encode_error"))
          /\ fs' = [fs EXCEPT ![output_md_path] = File(<<>>)]
          /\ CountError
       \/ /\ markdown_content # <<>>
          /\ Encodable(markdown_content)
          /\ writes' = Append(writes, Write(output_md_path, idx, "write_error"))
          /\ \E partial \in WrittenPrefixes(markdown_content) :
                fs' = [fs EXCEPT ![output_md_path] = File(partial)]
          /\ CountError
       \/ /\ markdown_content # <<>>
          /\ Encodable(markdown_content)
          /\ writes' = Append(writes, Write(output_md_path, idx, "saved"))
          /\ fs' = [fs EXCEPT ![output_md_path] = File(markdown_content)]
          /\ CountProcessed
    /\ UNCHANGED <<upload_method, files_to_process, pipeline_vars, calls,
                   summaries, exit_status, fatal, env_vars>>

\* Lines 318-339 and 346-348: the Markdown is generated and written.
\* open(.., "w") raises IOError and leaves the directory as it was, or it
\* creates / truncates the file; f.write then raises UnicodeEncodeError on
\* text utf-8 cannot encode (caught by the outer handler), or the write or
\* the closing flush raises IOError with some prefix on disk, or all of the
\* text is saved.
WriteMarkdown ==
    /\ pc = "handle_response"
    /\ ocr_response.some
    /\ ~GenerateRaises(ocr_response)
    /\ \/ /\ writes' = Append(writes, Write(output_md_path, idx, "open_error"))
          /\ UNCHANGED fs
          /\ CountError
       \/ /\ ~Encodable(markdown_content)
          /\ writes' = Append(writes, Write(output_md_path, idx, "encode_error"))
          /\ fs' = [fs EXCEPT ![output_md_path] = File(<<>>)]
          /\ CountError
       \/ /\ Encodable(markdown_content)
          /\ writes' = Append(writes, Write(output_md_path, idx, "write_error"))
          /\ \E partial \in WrittenPrefixes(markdown_content) :
                fs' = [fs EXCEPT ![output_md_path] = File(partial)]
          /\ CountError
       \/ /\ Encodable(markdown_content)
          /\ writes' = Append(writes, Write(output_md_path, idx, "saved"))
          /\ fs' = [fs EXCEPT ![output_md_path] = File(markdown_content)]
          /\ CountProcessed
    /\ UNCHANGED <<upload_method, files_to_process, pipeline_vars, calls,
                   summaries, exit_status, fatal, env_vars>>

\* An exit status that treats a skipped file like a failed one.
SummaryStrict ==
    /\ pc = "loop"
    /\ idx > Len(files_to_process)
    /\ summaries' = summaries + 1
    /\ Exit(IF errors_occurred > 0 \/ files_skipped > 0 THEN 1 ELSE 0)
    /\ UNCHANGED <<fs, upload_method, files_to_process, idx, counters,
                   pipeline_vars, calls, writes, outcome, fatal, env_vars>>

\* An end of run that exits with status 1 before the summary is printed
\* when errors were counted.
SummarySilentOnErrors ==
    /\ pc = "loop"
    /\ idx > Len(files_to_process)
    /\ summaries' = IF errors_occurred > 0 THEN summaries ELSE summaries + 1
    /\ Exit(IF errors_occurred > 0 THEN 1 ELSE 0)
    /\ UNCHANGED <<fs, upload_method, files_to_process, idx, counters,
                   pipeline_vars, calls, writes, outcome, fatal, env_vars>>

\* Lines 351-358: after the last candidate the summary is printed and the
\* exit status is derived from the error counter.
Summary ==
    /\ pc = "loop"
    /\ idx > Len(files_to_process)
    /\ summaries' = summaries + 1
    /\ Exit(IF errors_occurred > 0 THEN 1 ELSE 0)
    /\ UNCHANGED <<fs, upload_method, files_to_process, idx, counters,
                   pipeline_vars, calls, writes, outcome, fatal, env_vars>>

\* ------------------------------------------------------------------------
\* Specifications
\* ------------------------------------------------------------------------

Next ==
    \/ LoadKey
    \/ InitClient
    \/ ListFiles
    \/ SkipExisting
    \/ SkipSelf
    \/ Dispatch
    \/ PdfOpen
    \/ PdfUpload
    \/ PdfGetSignedUrl
    \/ PdfOcr
    \/ PdfFinally
    \/ ImgRead
    \/ ImgOcr
    \/ NoResponse
    \/ SynthesisRaises
    \/ WriteMarkdown
    \/ Summary

\* One run of the script.
Spec == Init /\ [][Next]_vars

\* The script is run again over the directory the last run left, with
\* nothing else changing the directory in between.
Rerun ==
    /\ pc = "exited"
    /\ run < MaxRuns
    /\ run' = run + 1
    /\ prev' = [fs |-> fs,
                outcome |-> [p \in SourcePaths |->
                    IF \E i \in 1..Len(files_to_process) : files_to_process[i] = p
                    THEN outcome[CHOOSE i \in 1..Len(files_to_process) :
                                     files_to_process[i] = p]
                    ELSE "none"],
                ran |-> TRUE]
    /\ pc' = "load_key"
    /\ upload_method' = "none"
    /\ files_to_process' = <<>>
    /\ idx' = 1
    /\ files_processed' = 0
    /\ files_skipped' = 0
    /\ errors_occurred' = 0
    /\ uploaded_file_id' = NullId
    /\ signed_url_str' = ""
    /\ ocr_response' = None
    /\ calls' = <<>>
    /\ writes' = <<>>
    /\ outcome' = <<>>
    /\ summaries' = 0
    /\ exit_status' = -1
    /\ fatal' = ""
    /\ UNCHANGED <<fs, script_file_path, synth>>

RerunSpec == Init /\ [][Next \/ Rerun]_vars

\* ------------------------------------------------------------------------
\* generate_markdown_from_response called on its own (lines 49-76)
\* ------------------------------------------------------------------------

\* Image ids and base64 payloads of the results handed to the synthesis.
IdA == <<"a">>
IdB == <<"b">>
PayloadA == <<"Q", "Q", "=", "=">>
PayloadB == <<"Z", "g">>

\* The pieces page texts are made of: a word, the placeholder the service
\* writes for image a and for image b, and a link to image a that is no
\* placeholder.
Segments ==
    { <<"t">>,
      ImageRef(StrAttr(IdA), IdA),
      ImageRef(StrAttr(IdB), IdB),
      ImageRef(StrAttr(IdA), <<"o">>) }

RECURSIVE Concat(_)
Concat(strs) == IF strs = <<>> THEN <<>> ELSE Head(strs) \o Concat(Tail(strs))

\* All sequences over S of at most n elements.
SeqsUpTo(S, n) == UNION {[1..k -> S] : k \in 0..n}

\* Image objects: complete ones, one without image_base64, one without id,
\* and one whose image_base64 is None.
Images ==
    { Image(StrAttr(IdA), StrAttr(PayloadA)),
      Image(StrAttr(IdB), StrAttr(PayloadB)),
      Image(StrAttr(IdA), MissingAttr),
      Image(MissingAttr, StrAttr(PayloadA)),
      Image(StrAttr(IdB), NoneAttr) }

\* Results of up to MaxPages pages without images; a page has a text, no
\* markdown attribute, or None for it.
PlainPages ==
    {Page(StrAttr(text), <<>>) : text \in {<<>>} \cup Segments}
        \cup {Page(MissingAttr, <<>>), Page(NoneAttr, <<>>)}

\* Results whose first page has a text of up to MaxSegments pieces and up to
\* MaxImages images, alone or followed by a page that shows image a's
\* placeholder and has no image of its own.
ImagePages ==
    {Page(StrAttr(Concat(segs)), images) :
        segs \in SeqsUpTo(Segments, MaxSegments),
        images \in SeqsUpTo(Images, MaxImages)}

SynthResults ==
    {Pages(pages) : pages \in SeqsUpTo(PlainPages, MaxPages)}
        \cup {Pages(<<page>>) : page \in ImagePages}
        \cup {Pages(<<page, Page(StrAttr(ImageRef(StrAttr(IdA), IdA)), <<>>)>>) :
                 page \in ImagePages}

SynthInit ==
    /\ StartOfRun
    /\ run = 1
    /\ fs \in {d \in InitialDirs :
                  \A p \in AllPaths : d[p] # Absent => d[p] \in {File(<<"x">>), Dir}}
    /\ \A p \in SourcePaths : fs[p] = Absent
    /\ script_file_path = ScriptPy
    /\ prev = NoPrev
    /\ \E result \in SynthResults, embed \in BOOLEAN :
          synth = [stage |-> "called", ocr_response |-> result,
                   include_images |-> embed, markdown_content |-> <<>>]

run_vars ==
    <<pc, run, fs, script_file_path, upload_method, files_to_process, idx,
      files_processed, files_skipped, errors_occurred, uploaded_file_id,
      signed_url_str, ocr_response, calls, writes, outcome, summaries,
      exit_status, fatal, prev>>

\* Lines 49-76: the call returns the Markdown.
SynthReturns ==
    /\ synth.stage = "called"
    /\ ~GenerateRaises(synth.ocr_response)
    /\ synth' = [synth EXCEPT
                    !.stage = "returned",
                    !.markdown_content =
                        generate_markdown_from_response(synth.ocr_response,
                                                        synth.include_images)]
    /\ UNCHANGED run_vars

\* Lines 64-76: a page whose markdown is None makes the call raise.
SynthRaises ==
    /\ synth.stage = "called"
    /\ GenerateRaises(synth.ocr_response)
    /\ synth' = [synth EXCEPT !.stage = "raised"]
    /\ UNCHANGED run_vars

SynthNext == SynthReturns \/ SynthRaises

SynthSpec == SynthInit /\ [][SynthNext]_vars

\* Every call of the script returns or raises, so a run that can take a
\* step takes one.
FairSpec == Spec /\ WF_vars(Next)

\* ------------------------------------------------------------------------
\* Properties
\* ------------------------------------------------------------------------

Candidates == 1..Len(files_to_process)

\* The positions in calls of candidate i's calls of one operation.
CallsOf(i, op) ==
    {k \in 1..Len(calls) : calls[k].file = i /\ calls[k].op = op}

\* The staging call of candidate i returned the (truthy) handle h.
StagedHandle(i, h) ==
    /\ h # NullId
    /\ \E k \in CallsOf(i, "upload") : ~calls[k].raised /\ calls[k].file_id = h

Releases(i, h) == {k \in CallsOf(i, "delete") : calls[k].file_id = h}

HandlesSeen == {calls[k].file_id : k \in 1..Len(calls)} \ {NullId}

\* The pipeline call for candidate i has returned to main().
PipelineReturned(i) == i < idx \/ (i = idx /\ pc = "handle_response")

ProcessReturned(i) == \E k \in CallsOf(i, "process") : ~calls[k].raised
ProcessRaised(i) == \E k \in CallsOf(i, "process") : calls[k].raised
OcrResultOf(i) == calls[CHOOSE k \in CallsOf(i, "process") : TRUE].result
ReleaseFailed(i) == \E k \in CallsOf(i, "delete") : calls[k].raised

WritesOf(i) == {k \in 1..Len(writes) : writes[k].file = i}
Saved(i) == \E k \in WritesOf(i) : writes[k].result = "saved"

\* C1: in every PDF run whose staging call returned a handle, that handle is
\* released at most once at any time and exactly once by the time
\* process_pdf_file has returned, whatever the later steps did.
ReleasedExactlyOnce ==
    \A k \in 1..Len(calls) :
        (calls[k].op = "upload" /\ ~calls[k].raised /\ calls[k].file_id # NullId) =>
            LET released == Cardinality(Releases(calls[k].file, calls[k].file_id))
            IN /\ released <= 1
               /\ PipelineReturned(calls[k].file) => released = 1

\* C1 witness: a staged PDF whose OCR call raised has returned to main().
StagedRunReturnedAfterOcrFailure ==
    \E i \in Candidates :
        /\ StagedHandle(i, Handle(i))
        /\ ProcessRaised(i)
        /\ PipelineReturned(i)
        /\ Cardinality(Releases(i, Handle(i))) = 1

\* A failure of candidate i that is not a failure of the release call: the
\* pipeline got no OCR result, the synthesis raised, or the write failed.
RealFailure(i) ==
    /\ outcome[i] \notin {"pending", "skipped"}
    /\ \/ ~ProcessReturned(i)
       \/ GenerateRaises(OcrResultOf(i))
       \/ ~Saved(i)

\* C2: when the OCR call returned a result and the release call then raised,
\* process_pdf_file still returns that result, the Markdown is written
\* unless the synthesis itself raises, the file is counted as processed
\* exactly when its write was saved, and the exit status is 1 only for
\* failures other than release failures.
ReleaseFailureIsNotFatal ==
    /\ \A i \in Candidates :
          (ProcessReturned(i) /\ ReleaseFailed(i)) =>
              /\ (i = idx /\ pc = "handle_response")
                    => ocr_response = OcrResultOf(i)
              /\ i < idx =>
                    /\ GenerateRaises(OcrResultOf(i)) \/ WritesOf(i) # {}
                    /\ outcome[i] = "processed" <=> Saved(i)
                    /\ outcome[i] = "error" <=> ~Saved(i)
    /\ (pc = "exited" /\ summaries = 1) =>
          (exit_status = 1 <=> \E i \in Candidates : RealFailure(i))

\* C2 witness: a file whose release call raised is counted as processed and
\* the run has exited with status 0.
ProcessedDespiteReleaseFailure ==
    /\ pc = "exited"
    /\ exit_status = 0
    /\ \E i \in Candidates :
          /\ ProcessReturned(i)
          /\ ReleaseFailed(i)
          /\ outcome[i] = "processed"
          /\ fs[with_suffix_md(files_to_process[i])] =
                File(generate_markdown_from_response(OcrResultOf(i), FALSE))

\* The positions in calls of all remote calls issued for candidate i.
CallsOfFile(i) == {k \in 1..Len(calls) : calls[k].file = i}

\* The candidate the loop is at has its output path in the directory.
OutputThere == AtCandidate /\ fs[output_md_path].kind # "absent"

\* C3: a candidate whose output path exists when the loop reaches it is
\* passed over in one step that issues no remote call, leaves the directory
\* and the other counters alone and adds one to files_skipped; no remote
\* call and no write is ever recorded for a skipped candidate.
SkippedFileMakesNoCall ==
    /\ [](\A i \in Candidates :
             outcome[i] = "skipped" => CallsOfFile(i) = {} /\ WritesOf(i) = {})
    /\ [][OutputThere =>
             /\ UNCHANGED <<calls, writes, fs, files_processed, errors_occurred>>
             /\ files_skipped' = files_skipped + 1
             /\ outcome' = [outcome EXCEPT ![idx] = "skipped"]
             /\ idx' = idx + 1
             /\ pc' = "loop"]_vars

\* C3 witness: a candidate other than the script was skipped for its
\* existing output, which is still the old one, while another candidate of
\* the run did make remote calls.
SkippedForExistingOutput ==
    \E i \in Candidates :
        /\ outcome[i] = "skipped"
        /\ files_to_process[i] # script_file_path
        /\ fs[with_suffix_md(files_to_process[i])] = File(OldMarkdown)
        /\ files_skipped = 1
        /\ calls # <<>>

\* The candidates of the previous run.
PrevFiles == {p \in SourcePaths : prev.outcome[p] # "none"}

\* C4: in a run that follows another run over the same directory, the
\* candidates are the same files (iterdir may list them in another order), every entry the earlier run left is unchanged,
\* every candidate whose output the earlier run left (in particular every
\* candidate it counted as processed) is skipped without a remote call or a
\* write, and when that is every candidate the run ends with files_skipped
\* equal to the number of candidates and no remote call at all.
SecondRunSkipsFirstRunOutputs ==
    (run > 1 /\ PrevFiles # {} /\ files_to_process # <<>>) =>
        /\ Len(files_to_process) = Cardinality(PrevFiles)
        /\ {files_to_process[i] : i \in Candidates} = PrevFiles
        /\ \A p \in AllPaths : prev.fs[p] # Absent => fs[p] = prev.fs[p]
        /\ \A p \in PrevFiles :
              prev.outcome[p] = "processed"
                  => prev.fs[with_suffix_md(p)].kind = "file"
        /\ \A i \in Candidates :
              /\ prev.fs[with_suffix_md(files_to_process[i])] # Absent =>
                    /\ CallsOfFile(i) = {}
                    /\ WritesOf(i) = {}
                    /\ i < idx => outcome[i] = "skipped"
        /\ ( /\ summaries = 1
             /\ \A i \in Candidates :
                   prev.fs[with_suffix_md(files_to_process[i])] # Absent )
              => files_skipped = Len(files_to_process) /\ calls = <<>>

\* C4 witness: the second run has ended after skipping two candidates that
\* the first run had both counted as processed.
SecondRunSkippedEverything ==
    /\ run = 2
    /\ summaries = 1
    /\ Len(files_to_process) = 2
    /\ Cardinality(PrevFiles) = 2
    /\ \A i \in Candidates :
          prev.outcome[files_to_process[i]] = "processed" /\ outcome[i] = "skipped"
    /\ files_skipped = 2
    /\ calls = <<>>

\* C5: no candidate has more than one write, a write targets a path that
\* is not in the directory, and a directory entry changes only by an output
\* path that was absent being written, so an output that exists is never
\* overwritten.
OutputWrittenOnceNeverOverwritten ==
    /\ [](\A j, k \in 1..Len(writes) :
             j # k => writes[j].file # writes[k].file)
    /\ [][writes' # writes =>
             /\ writes' = Append(writes, writes'[Len(writes')])
             /\ fs[writes'[Len(writes')].path] = Absent]_vars
    /\ [][\A p \in AllPaths :
             fs'[p] # fs[p] =>
                 /\ fs[p] = Absent
                 /\ p.suffix = ".md"
                 /\ Len(writes') = Len(writes) + 1
                 /\ writes'[Len(writes')].path = p]_vars

\* C5 witness: two candidates share a base name, the first was saved, the
\* second was skipped and the output is still what the first one wrote.
SharedBaseNameSecondSkipped ==
    \E i, j \in Candidates :
        /\ i < j
        /\ with_suffix_md(files_to_process[i]) = with_suffix_md(files_to_process[j])
        /\ Saved(i)
        /\ outcome[j] = "skipped"
        /\ fs[with_suffix_md(files_to_process[i])] =
              File(generate_markdown_from_response(OcrResultOf(i), FALSE))
        /\ Len(fs[with_suffix_md(files_to_process[i])].data) > 1

WithOutcome(result) == {i \in Candidates : outcome[i] = result}

\* C6: at every point of the loop the three counters add up to the number
\* of candidates the loop has finished with, each counter counts the
\* candidates with its outcome, and when the summary is printed the sum is
\* the number of candidates.
CountersAddUpToConsidered ==
    /\ files_processed + files_skipped + errors_occurred = idx - 1
    /\ files_processed = Cardinality(WithOutcome("processed"))
    /\ files_skipped = Cardinality(WithOutcome("skipped"))
    /\ errors_occurred = Cardinality(WithOutcome("error"))
    /\ \A i \in Candidates : i < idx <=> outcome[i] # "pending"
    /\ summaries = 1 =>
          files_processed + files_skipped + errors_occurred
              = Len(files_to_process)

\* C6 witness: a run of two candidates has printed its summary with one
\* file skipped and one counted as an error by the outer exception handler.
SummaryAfterSkipAndUnexpectedError ==
    /\ summaries = 1
    /\ Len(files_to_process) = 2
    /\ files_skipped = 1
    /\ errors_occurred = 1
    /\ \E i \in Candidates :
          /\ outcome[i] = "error"
          /\ ProcessReturned(i)
          /\ GenerateRaises(OcrResultOf(i))

\* C7: a run that got past start-up with candidates exits only after every
\* candidate has its outcome, whatever failed on the way; each failed file
\* is in the error counter once, and while candidates are left the loop can
\* always take up the next one.
FailureDoesNotAbortBatch ==
    /\ errors_occurred = Cardinality(WithOutcome("error"))
    /\ (pc = "exited" /\ fatal = "" /\ files_to_process # <<>>) =>
          /\ idx = Len(files_to_process) + 1
          /\ \A i \in Candidates : outcome[i] # "pending"
    /\ (pc = "loop" /\ idx \in Candidates) =>
          ENABLED (SkipExisting \/ SkipSelf \/ Dispatch)
    /\ pc \notin {"load_key", "init_client", "list_dir", "loop", "exited"} =>
          idx \in Candidates /\ exit_status = -1

\* C7 witness: the first candidate failed in its staging call and the
\* second one was still processed before the run exited.
LaterFileProcessedAfterFailure ==
    /\ pc = "exited"
    /\ \E i, j \in Candidates :
          /\ i < j
          /\ outcome[i] = "error"
          /\ \E k \in CallsOf(i, "upload") : calls[k].raised
          /\ outcome[j] = "processed"
    /\ errors_occurred = 1

\* C8: a run that ended without a fatal start-up error has exit status 0 or
\* 1, 1 exactly when the error counter is positive, which is exactly when
\* some candidate's outcome is an error; without candidates it is 0.
ExitStatusFromErrorCount ==
    (pc = "exited" /\ fatal = "") =>
        /\ exit_status \in {0, 1}
        /\ exit_status = 1 <=> errors_occurred > 0
        /\ exit_status = 1 <=> WithOutcome("error") # {}
        /\ files_to_process = <<>> => exit_status = 0

\* C8 witness: a run with a skipped file and a failed release call has
\* exited with status 0.
ExitZeroDespiteSkipAndReleaseFailure ==
    /\ pc = "exited"
    /\ fatal = ""
    /\ exit_status = 0
    /\ files_skipped > 0
    /\ \E i \in Candidates : ReleaseFailed(i)

\* C9 as claimed: every run that got past the start-up checks has printed
\* the summary exactly once when it has exited.
SummaryAlwaysPrinted ==
    (pc = "exited" /\ fatal = "") => summaries = 1

\* C9 as amended: the summary is printed at most once and only as the last
\* thing before the exit; a run that got past the start-up checks has
\* printed it once when it had candidates and not at all when it had none;
\* and a run that has not exited can always take its next step.
SummaryOnceUnlessNoCandidates ==
    /\ summaries \in {0, 1}
    /\ summaries = 1 => pc = "exited" /\ fatal = ""
    /\ (pc = "exited" /\ fatal = "") =>
          summaries = IF files_to_process = <<>> THEN 0 ELSE 1
    /\ (pc = "exited" /\ fatal = "" /\ files_to_process = <<>>) =>
          exit_status = 0
    /\ pc # "exited" => ENABLED Next

\* C9 witness: a run with a failed and a processed file has printed the
\* summary and exited.
SummaryPrintedAfterMixedRun ==
    /\ pc = "exited"
    /\ summaries = 1
    /\ files_processed = 1
    /\ errors_occurred = 1

\* C10: before the directory has been listed no remote call is made, no
\* candidate is considered and nothing is written; a fatal start-up error
\* is set in the very step that ends the run with status 1, and that step
\* changes neither the directory nor any record or counter.
FatalEndsRunAtOnce ==
    /\ [](pc \in {"load_key", "init_client", "list_dir"} =>
             /\ calls = <<>> /\ writes = <<>> /\ outcome = <<>> /\ idx = 1
             /\ files_processed + files_skipped + errors_occurred = 0)
    /\ [](fatal # "" =>
             /\ pc = "exited" /\ exit_status = 1
             /\ calls = <<>> /\ writes = <<>> /\ outcome = <<>> /\ idx = 1
             /\ summaries = 0)
    /\ [][fatal' # fatal =>
             /\ fatal = ""
             /\ pc' = "exited"
             /\ UNCHANGED <<fs, calls, writes, outcome, idx, counters>>]_vars

\* C10 witness: the directory listing failed, after the client had been
\* constructed, and the run has exited with status 1.
ExitedOnListingError ==
    /\ fatal = "DirectoryListError"
    /\ pc = "exited"
    /\ exit_status = 1
    /\ upload_method = "upload"
    /\ \E p \in SourcePaths : fs[p] # Absent


IsPdf(i) == Lower(files_to_process[i].suffix) = ".pdf"

\* Candidate i is done and its OCR call returned a result with no pages.
ZeroPages(i) ==
    /\ i < idx
    /\ ProcessReturned(i)
    /\ OcrResultOf(i).pages = <<>>

\* C11: a result without pages synthesizes to the empty string with and
\* without embedding; the write is attempted, the file is counted as
\* processed exactly when the write was saved, which leaves an empty file
\* at the output path, and it is counted as an error only when opening or
\* writing the output file itself raised.
ZeroPagesIsProcessed ==
    \A i \in Candidates :
        ZeroPages(i) =>
            /\ generate_markdown_from_response(OcrResultOf(i), TRUE) = <<>>
            /\ generate_markdown_from_response(OcrResultOf(i), FALSE) = <<>>
            /\ WritesOf(i) # {}
            /\ outcome[i] = "processed" <=> Saved(i)
            /\ Saved(i) => fs[with_suffix_md(files_to_process[i])] = File(<<>>)
            /\ outcome[i] = "error" =>
                  \A k \in WritesOf(i) :
                      writes[k].result \in {"open_error", "write_error"}

\* C11 witness: a PDF and an image both got a result without pages, both
\* are counted as processed and both outputs are empty files.
ZeroPagePdfAndImageProcessed ==
    \E i, j \in Candidates :
        /\ IsPdf(i) /\ ~IsPdf(j)
        /\ ZeroPages(i) /\ ZeroPages(j)
        /\ outcome[i] = "processed" /\ outcome[j] = "processed"
        /\ fs[with_suffix_md(files_to_process[i])] = File(<<>>)
        /\ fs[with_suffix_md(files_to_process[j])] = File(<<>>)
        /\ errors_occurred = 0


\* The step appends a delete call to calls.
ReleaseStep ==
    /\ Len(calls') = Len(calls) + 1
    /\ calls'[Len(calls')].op = "delete"

\* C14: the release call of a staged PDF is the last remote call of its
\* file, so it follows the resolved OCR call when there is one; it is issued
\* while the file has no outcome and no write, in a step that changes no
\* counter and no directory entry, and a file with a staged handle gets a
\* write or an outcome only after its release call.
ReleaseBetweenOcrAndOutcome ==
    /\ [](\A i \in Candidates : \A h \in HandlesSeen :
             StagedHandle(i, h) =>
                 /\ \A k \in Releases(i, h) : \A j \in CallsOfFile(i) :
                       j # k => j < k
                 /\ (WritesOf(i) # {} \/ outcome[i] # "pending")
                       => Releases(i, h) # {})
    /\ [][ReleaseStep =>
             /\ pc = "pdf_finally"
             /\ calls'[Len(calls')].file = idx
             /\ outcome[idx] = "pending" /\ WritesOf(idx) = {}
             /\ UNCHANGED <<fs, writes, outcome, idx, files_processed,
                            files_skipped, errors_occurred, ocr_response>>]_vars

\* C14 witness: the OCR call of a staged PDF returned a result, the release
\* call follows it, and the file has no write and no outcome yet.
ReleasedAfterOcrBeforeWrite ==
    /\ pc = "handle_response"
    /\ StagedHandle(idx, Handle(idx))
    /\ ProcessReturned(idx)
    /\ \E k \in Releases(idx, Handle(idx)) : \A j \in CallsOf(idx, "process") : j < k
    /\ outcome[idx] = "pending"
    /\ WritesOf(idx) = {}
    /\ files_processed + files_skipped + errors_occurred = idx - 1

\* The locator request of the PDF being processed returned a response
\* without a URL after its staging call had returned a handle.
LocatorMissing ==
    /\ pc \in {"pdf_finally", "handle_response"}
    /\ uploaded_file_id # NullId
    /\ signed_url_str = ""
    /\ \E k \in CallsOf(idx, "get_signed_url") : ~calls[k].raised

\* Candidate i was staged and its locator request returned.
Located(i) ==
    /\ StagedHandle(i, Handle(i))
    /\ \E k \in CallsOf(i, "get_signed_url") : ~calls[k].raised

\* C15: when the locator response of a staged PDF carries no URL, no OCR call
\* is made and process_pdf_file returns None after exactly one release
\* call; main() then counts an error for the file without writing anything.
NoLocatorIsReleasedError ==
    /\ [](LocatorMissing =>
             /\ CallsOf(idx, "process") = {}
             /\ ~ocr_response.some
             /\ pc = "handle_response"
                   => Cardinality(Releases(idx, uploaded_file_id)) = 1)
    /\ [](\A i \in Candidates :
             (i < idx /\ Located(i) /\ CallsOf(i, "process") = {}) =>
                 /\ Cardinality(CallsOf(i, "delete")) = 1
                 /\ outcome[i] = "error"
                 /\ WritesOf(i) = {})
    /\ [][(LocatorMissing /\ pc = "handle_response") =>
             /\ errors_occurred' = errors_occurred + 1
             /\ outcome' = [outcome EXCEPT ![idx] = "error"]
             /\ UNCHANGED <<fs, writes, calls, files_processed>>]_vars

\* C15 witness: a staged PDF whose locator response had no URL is counted as
\* an error after one successful release call and no OCR call.
NoLocatorCountedAfterRelease ==
    \E i \in Candidates :
        /\ i < idx
        /\ Located(i)
        /\ CallsOf(i, "process") = {}
        /\ \E k \in Releases(i, Handle(i)) : ~calls[k].raised
        /\ outcome[i] = "error"
        /\ errors_occurred = 1

\* Candidate i is a PDF whose pipeline ran and whose staging failed: open
\* raised or the client has no upload method, so that no staging call was
\* made, or the staging call raised. (An upload that returns an object whose
\* id is None or "" is no such failure: the code goes on with that id.)
StagingFailed(i) ==
    /\ IsPdf(i)
    /\ PipelineReturned(i)
    /\ outcome[i] # "skipped"
    /\ \A k \in CallsOf(i, "upload") : calls[k].raised

\* C16: a PDF run whose open or staging call failed makes no locate, OCR or
\* release call, returns None and is counted as an error without a write;
\* a run whose staging call returned an object with a null id makes no
\* release call; and every release call names the non-null handle that an
\* earlier staging call of the same file returned.
NoHandleNoRelease ==
    /\ \A i \in Candidates :
          StagingFailed(i) =>
              /\ CallsOfFile(i) = CallsOf(i, "upload")
              /\ Cardinality(CallsOfFile(i)) <= 1
              /\ WritesOf(i) = {}
              /\ i = idx => ~ocr_response.some
              /\ i < idx => outcome[i] = "error"
    /\ \A k \in 1..Len(calls) :
          (calls[k].op = "upload" /\ ~calls[k].raised /\ calls[k].file_id = NullId)
              => CallsOf(calls[k].file, "delete") = {}
    /\ \A k \in 1..Len(calls) :
          calls[k].op = "delete" =>
              /\ calls[k].file_id # NullId
              /\ \E j \in 1..(k - 1) :
                    /\ calls[j].op = "upload"
                    /\ calls[j].file = calls[k].file
                    /\ ~calls[j].raised
                    /\ calls[j].file_id = calls[k].file_id

\* C16 witness: one PDF failed before staging and another in the staging
\* call; both are counted as errors and no other remote call was made.
TwoPdfsFailedBeforeHandle ==
    \E i, j \in Candidates :
        /\ i < idx /\ j < idx
        /\ StagingFailed(i) /\ CallsOfFile(i) = {}
        /\ StagingFailed(j) /\ CallsOf(j, "upload") # {}
        /\ Len(calls) = 1
        /\ errors_occurred = 2


\* Candidate i is an image whose pipeline ran.
ImageRun(i) == ~IsPdf(i) /\ PipelineReturned(i) /\ outcome[i] # "skipped"

\* C17: every remote call made for an image is an OCR call on an inline
\* data URL that does not ask for embedded images, and there is at most one
\* per image; an image of zero bytes, like every image run without a remote
\* call, made no call, returned None and is counted as an error.
ImageRunOnlyCallsOcr ==
    /\ \A k \in 1..Len(calls) :
          ~IsPdf(calls[k].file) =>
              /\ calls[k].op = "process"
              /\ calls[k].doc[1] = "image_url"
              /\ \E knows_webp \in BOOLEAN :
                    calls[k].doc[2] =
                        final_mime_type(files_to_process[calls[k].file], knows_webp)
              /\ ~calls[k].include
              /\ calls[k].file_id = NullId
    /\ \A i \in Candidates :
          /\ ~IsPdf(i) => Cardinality(CallsOfFile(i)) <= 1
          /\ ImageRun(i) =>
                /\ fs[files_to_process[i]].data = <<>> => CallsOfFile(i) = {}
                /\ CallsOfFile(i) = {} =>
                      /\ WritesOf(i) = {}
                      /\ i = idx => ~ocr_response.some
                      /\ i < idx => outcome[i] = "error"

\* C17 witness: in a run where a PDF was staged and released, an image made
\* its one OCR call and was saved.
ImageProcessedWithOneCall ==
    \E i, j \in Candidates :
        /\ IsPdf(i) /\ StagedHandle(i, Handle(i)) /\ Releases(i, Handle(i)) # {}
        /\ ImageRun(j)
        /\ Cardinality(CallsOfFile(j)) = 1
        /\ ProcessReturned(j)
        /\ outcome[j] = "processed"

\* The candidates with a staged handle that no release call has named yet.
Outstanding ==
    {i \in Candidates :
        \E k \in CallsOf(i, "upload") :
            /\ ~calls[k].raised
            /\ calls[k].file_id # NullId
            /\ Releases(i, calls[k].file_id) = {}}

\* C18: remote calls and writes are recorded in candidate order (each one
\* is for the candidate of the one before it or for a later one) and only
\* for candidates up to the current one, every earlier candidate has its
\* outcome and no later one has any, and the only candidate that can hold
\* a staged handle without a release call is the current one, inside
\* process_pdf_file.
OneFileAtATime ==
    /\ \A k \in 1..(Len(calls) - 1) : calls[k].file <= calls[k + 1].file
    /\ \A k \in 1..(Len(writes) - 1) : writes[k].file < writes[k + 1].file
    /\ \A k \in 1..Len(calls) : calls[k].file \in Candidates /\ calls[k].file <= idx
    /\ \A k \in 1..Len(writes) : writes[k].file < idx
    /\ \A i \in Candidates :
          /\ i < idx => outcome[i] # "pending"
          /\ i >= idx => outcome[i] = "pending"
    /\ LET staged == Outstanding
       IN /\ Cardinality(staged) <= 1
          /\ staged \subseteq {idx}
          /\ staged # {} => pc \in {"pdf_get_signed_url", "pdf_ocr", "pdf_finally"}

\* C18 witness: the second PDF holds its staged handle while the first one
\* has been staged, released and written.
SecondStagedAfterFirstReleased ==
    /\ idx = 2
    /\ Outstanding = {2}
    /\ StagedHandle(1, Handle(1))
    /\ Releases(1, Handle(1)) # {}
    /\ Saved(1)


\* The output path of candidate i.
OutputOf(i) == with_suffix_md(files_to_process[i])

\* C19: once the summary is printed, a candidate counted as an error has no
\* entry at its output path, unless another candidate of the same base name
\* was counted as processed and wrote it; a later run would therefore find
\* the path absent and process the file again.
ErrorLeavesNoOutput ==
    summaries = 1 =>
        \A i \in Candidates :
            outcome[i] = "error" =>
                \/ fs[OutputOf(i)] = Absent
                \/ \E j \in Candidates :
                      /\ OutputOf(j) = OutputOf(i)
                      /\ outcome[j] = "processed"


\* The pages of the result handed to the synthesis that have a markdown
\* attribute, in page order, and the Markdown the call returned.
KeptPages ==
    SelectSeq(synth.ocr_response.pages, LAMBDA page : hasattr(page.markdown))

Returned == synth.stage = "returned"

\* Where part k starts in a string made of parts with a separator of seven
\* characters between them (the number of characters before it).
RECURSIVE StartOf(_, _)
StartOf(parts, k) ==
    IF k = 1 THEN 0 ELSE StartOf(parts, k - 1) + Len(parts[k - 1]) + 7

\* out is parts[1], ..., parts[n] in this order with exactly "\n\n---\n\n"
\* between neighbours and nothing before, after or anywhere else.
JoinedBySeparator(out, parts) ==
    LET n == Len(parts) IN
    IF n = 0 THEN out = <<>>
    ELSE /\ Len(out) = StartOf(parts, n) + Len(parts[n])
         /\ \A k \in 1..n :
               SubSeq(out, StartOf(parts, k) + 1,
                      StartOf(parts, k) + Len(parts[k])) = parts[k]
         /\ \A k \in 1..(n - 1) :
               SubSeq(out, StartOf(parts, k) + Len(parts[k]) + 1,
                      StartOf(parts, k + 1))
                  = <<"\n", "\n", "-", "-", "-", "\n", "\n">>

\* C12: the Markdown returned for a result with pages is the texts of its
\* pages (of those that have a markdown attribute, which are all n of them
\* when every page carries a text) in page order, with exactly
\* "\n\n---\n\n" between neighbours, none before the first and none after
\* the last; for three pages it is page1 + sep + page2 + sep + page3.
PagesJoinedBySeparator ==
    (Returned /\ synth.ocr_response.pages # <<>>) =>
        LET pages == synth.ocr_response.pages
            out == synth.markdown_content
            parts == [k \in 1..Len(KeptPages) |->
                         PageMarkdown(KeptPages[k], synth.include_images)]
            sep == <<"\n", "\n", "-", "-", "-", "\n", "\n">>
        IN /\ JoinedBySeparator(out, parts)
           /\ (\A k \in 1..Len(pages) : pages[k].markdown.tag = "str")
                 => /\ Len(parts) = Len(pages)
                    /\ \A k \in 1..Len(pages) :
                          (pages[k].images = <<>> \/ ~synth.include_images)
                              => parts[k] = pages[k].markdown.val
           /\ (Len(pages) = 3 /\ Len(parts) = 3)
                 => out = parts[1] \o sep \o parts[2] \o sep \o parts[3]

\* C12 witness: a result of three pages with three different texts was
\* synthesized; the Markdown has the three texts and fourteen more characters.
ThreePagesJoined ==
    /\ Returned
    /\ Len(synth.ocr_response.pages) = 3
    /\ \A k \in 1..3 : synth.ocr_response.pages[k].markdown.tag = "str"
    /\ \A j, k \in 1..3 :
          j # k => synth.ocr_response.pages[j].markdown.val
                      # synth.ocr_response.pages[k].markdown.val
    /\ synth.ocr_response.pages[1].markdown.val # <<>>
    /\ Len(synth.markdown_content) =
          Len(synth.ocr_response.pages[1].markdown.val)
             + Len(synth.ocr_response.pages[2].markdown.val)
             + Len(synth.ocr_response.pages[3].markdown.val) + 14


\* An image has an id and a payload when both are there as strings; an
\* attribute that is absent, or that holds None, is missing.
HasIdAndPayload(img) ==
    /\ img.id.tag = "str"
    /\ img.image_base64.tag = "str"

\* The images of a page that have both an id and a payload and whose id is
\* img_id, by position.
Providers(images, img_id) ==
    {k \in 1..Len(images) :
        /\ HasIdAndPayload(images[k])
        /\ images[k].id = StrAttr(img_id)}

\* The payload of the last such image.
PayloadText(images, img_id) ==
    LET last == CHOOSE k \in Providers(images, img_id) :
                    \A j \in Providers(images, img_id) : j <= k
    IN images[last].image_base64.val

\* What one piece of a page text must read as after the synthesis with
\* embedding: the placeholder ![id](id) of an image that the page carries
\* with both an id and a payload becomes
\* ![id](data:image/png;base64,<payload>), and every other piece stays as
\* it is.
ExpectedSegment(seg, images) ==
    IF \E img_id \in {IdA, IdB} :
          /\ seg = <<"!", "[">> \o img_id \o <<"]", "(">> \o img_id \o <<")">>
          /\ Providers(images, img_id) # {}
    THEN LET img_id == CHOOSE id \in {IdA, IdB} :
                           seg = <<"!", "[">> \o id \o <<"]", "(">> \o id \o <<")">>
         IN <<"!", "[">> \o img_id \o <<"]", "(">>
               \o <<"d", "a", "t", "a", ":", "i", "m", "a", "g", "e", "/",
                    "p", "n", "g", ";", "b", "a", "s", "e", "6", "4", ",">>
               \o PayloadText(images, img_id) \o <<")">>
    ELSE seg

\* The text a page must contribute: its own text without embedding, and
\* its pieces with the placeholders of its own images replaced with embedding.
ExpectedPage(page, embed) ==
    IF ~embed THEN page.markdown.val
    ELSE LET segs == CHOOSE ss \in SeqsUpTo(Segments, MaxSegments) :
                         Concat(ss) = page.markdown.val
         IN Concat([k \in 1..Len(segs) |-> ExpectedSegment(segs[k], page.images)])

\* C13: with embedding, every occurrence of ![id](id) in a page's text is
\* replaced by ![id](data:image/png;base64,<payload>) for each image of that
\* page that has both an id and a payload, and nothing else changes: other
\* links, other pages' placeholders and the placeholders of images that
\* miss their id or their payload stay as they are; without embedding every
\* page text is returned unchanged. The synthesis does not satisfy this: an
\* image whose image_base64 is None passes the hasattr test of line 69 and
\* its placeholder is replaced with the text None as the payload.
PlaceholdersReplacedExactly ==
    Returned =>
        JoinedBySeparator(
            synth.markdown_content,
            [k \in 1..Len(KeptPages) |->
                ExpectedPage(KeptPages[k], synth.include_images)])

\* C13, the failing case reached: the text "![b](b)" of a page whose only
\* image b has no payload (image_base64 is None) was synthesized with
\* embedding to "![b](data:image/png;base64,None)".
NonePayloadSubstituted ==
    /\ Returned
    /\ synth.include_images
    /\ Len(synth.ocr_response.pages) = 1
    /\ synth.ocr_response.pages[1].markdown.val =
          <<"!", "[", "b", "]", "(", "b", ")">>
    /\ synth.ocr_response.pages[1].images = <<Image(StrAttr(IdB), NoneAttr)>>
    /\ synth.markdown_content =
          <<"!", "[", "b", "]", "(", "d", "a", "t", "a", ":", "i", "m", "a",
            "g", "e", "/", "p", "n", "g", ";", "b", "a", "s", "e", "6", "4",
            ",", "N", "o", "n", "e", ")">>

====
